---- MODULE Spec2Model ----
(***************************************************************************)
(* Ingestion / sync pipeline of the document catalog.                      *)
(*                                                                         *)
(* The catalog is a PostgreSQL database (app/config.py postgres_dsn) used  *)
(* through SQLAlchemy sessions (app/db/postgres.py get_session): a session *)
(* is one transaction, committed when the with-block ends normally and     *)
(* rolled back when it ends by an exception.  Rows written by a session    *)
(* are invisible to every other session until the commit (READ COMMITTED). *)
(* The committed catalog is docs/chunks/jobs; the uncommitted rows of a    *)
(* running ingest_document call are kept in its call record.               *)
(***************************************************************************)
EXTENDS Integers, Sequences, FiniteSets, TLC

(* ------------------------------------------------------------------ *)
(* Bounds of the model                                                  *)
(* ------------------------------------------------------------------ *)
MaxDocId == 3
MaxFsOps == 1
MaxSyncRuns == 3
MaxBatchRuns == 2
MaxLost == 1
MaxEntries == 3
MaxScans == 2

(* ------------------------------------------------------------------ *)
(* Files, contents and the external collaborators                       *)
(* ------------------------------------------------------------------ *)
\* The watch directory holds at most these files; the sequence is the
\* ascending order of their names.
PathOrder == <<"a.pdf", "b.pdf">>
Paths == {PathOrder[k] : k \in 1..Len(PathOrder)}

\* The directory the batch runner is given holds one more file name.
BatchOrder == <<"a.pdf", "b.pdf", "c.pdf">>
Files == {BatchOrder[k] : k \in 1..Len(BatchOrder)}
NoFile == 0
\* Three byte contents: 1 and 2 have the same size, 3 is longer.
Contents == {1, 2, 3}

st_size(c) == IF c = 3 THEN 2 ELSE 1

\* sha256 hexdigest of the bytes: equal bytes give equal digests, and the
\* digest is taken to be collision free.
compute_file_hash(c) == <<"sha256", c>>

\* parser.parse(file_path).total_pages
total_pages(c) == c

\* chunk_text(result.raw_text): content 1 parses to empty text (no chunk),
\* content 2 to one chunk, content 3 to two chunks, numbered from 0.
chunk_text(c) == IF c = 1 THEN {} ELSE 0..(c - 2)

\* len(str(e)) of the exceptions the collaborators raise
MsgLen(exc) == IF exc = "ParseError" THEN 1500 ELSE 40

\* doc.error_msg = str(e)[:1000]
ErrMsgMax == 1000
Truncate(n) == IF n > ErrMsgMax THEN ErrMsgMax ELSE n

\* details: str(e)[:200]
DetailMax == 200
Detail(n) == IF n > DetailMax THEN DetailMax ELSE n

Workers == {"w1", "w2"}
\* The run_sync executions: the scheduled task and the sync endpoint.
Syncs == {"sync", "sync2"}
Runners == Workers \cup Syncs \cup {"batch", "task"}


VARIABLES
  disk,      \* path -> content of the file, NoFile when absent
  docs,      \* committed rows of table document
  chunks,    \* committed rows of table doc_chunk
  jobs,      \* committed rows of table system_job (status, last_error), oldest first
  nextId,    \* the sequence behind document.doc_id
  ing,       \* runner -> the ingest_document call it is executing
  sync,      \* the run_sync executions
  fsOps,     \* number of file system changes so far
  syncRuns,  \* number of run_sync executions started so far
  retId,     \* history: digest -> id a finished call returned, 0 once that row is gone
  retPaths,  \* history: digest -> paths whose call returned retId
  poison,    \* history: files whose pipeline failed in a finished run_sync, unchanged since
  summary,   \* history: the stats the last finished run_sync returned
  batch,     \* the scan_and_ingest execution
  task,      \* the submission of the ingest_file task
  root,      \* what is at the path of the watch directory: "dir", "file", "missing"
  scan,      \* the directory as scan_files lists it, and the last scan_files call
  qdrant     \* the vector store: whether it answers, and the failed deletes the
             \* delete endpoint has logged

vars == <<disk, docs, chunks, jobs, nextId, ing, sync, fsOps, syncRuns,
          retId, retPaths, poison, summary, batch, task, root, scan, qdrant>>

Digests == {compute_file_hash(c) : c \in Contents}

(* ------------------------------------------------------------------ *)
(* Rows                                                                 *)
(* ------------------------------------------------------------------ *)
\* Document(...) without status="processing": the column default.
Document_default(id, p, h, sz) ==
  [doc_id |-> id, path |-> p, hash |-> h, size |-> sz,
   status |-> "pending", total_page_cnt |-> 0, error_msg |-> 0]

\* Document(...) of ingest_document: status "processing", the column
\* defaults for the rest.
Document(id, p, h, sz) ==
  [doc_id |-> id, path |-> p, hash |-> h, size |-> sz,
   status |-> "processing", total_page_cnt |-> 0, error_msg |-> 0]

\* No row (None).
NoDoc ==
  [doc_id |-> 0, path |-> "", hash |-> <<>>, size |-> 0,
   status |-> "", total_page_cnt |-> 0, error_msg |-> 0]

DocChunk(id, k) == [doc_id |-> id, chunk_idx |-> k]

\* A call: its position, its argument, the bytes it hashed, the Document
\* object of its session and the DocChunk objects added to the session;
\* once it has ended, the id it returned or the exception it raised, the
\* chunk rows its session had flushed, and (history) whether the dedup
\* check found a row that an earlier call on the same path ("same") or
\* only on another path ("other") had returned.
IdleCall ==
  [pc |-> "idle", path |-> "", content |-> NoFile, doc |-> NoDoc, pend |-> {},
   result |-> 0, exc |-> "none", flushed |-> {}, again |-> ""]

\* A runner can start a call when it is not inside one.
Ended == {"idle", "returned", "raised", "crashed"}

ZeroStats == [new |-> 0, modified |-> 0, deleted |-> 0, unchanged |-> 0, errors |-> 0]

ZeroResults == [total |-> 0, success |-> 0, failed |-> 0, skipped |-> 0]

\* No scan_and_ingest in progress.  deduped (history) holds the positions
\* of the files whose call the dedup check resolved to an existing row.
IdleBatch ==
  [pc |-> "idle", files |-> <<>>, i |-> 1, results |-> ZeroResults, details |-> <<>>,
   deduped |-> {}, ended |-> "", runs |-> 0]

\* What scan_files has returned: nothing yet, a ScanResult, or an exception.
NoResult == [status |-> "none", files |-> <<>>, total_files |-> 0, by_type |-> <<>>]

NoOptions ==
  [pattern |-> FALSE, recursive |-> FALSE, extensions |-> [given |-> FALSE, exts |-> {}]]

\* An empty directory that has not been scanned.  listing holds the
\* entries in the order the file system lists them, count the scans made
\* since the directory last changed.
NoScan == [listing |-> <<>>, options |-> NoOptions, result |-> NoResult, count |-> 0]

\* No ingest_file task submitted.  runs counts the calls of
\* ingest_document, retries is self.request.retries, lost counts the runs
\* whose worker was lost, last (history) is how the last run ended.
NoTask ==
  [pc |-> "none", path |-> "", retries |-> 0, runs |-> 0, lost |-> 0, last |-> ""]

IdleSync ==
  [pc |-> "idle", files |-> <<>>, db_map |-> [p \in Paths |-> NoDoc], i |-> 1,
   path |-> "", kind |-> "none", deleted |-> {}, unflushed |-> 0, failed |-> {},
   stats |-> ZeroStats, ended |-> "", quiet |-> TRUE, overlap |-> FALSE,
   rerun |-> FALSE, by |-> "", broken |-> FALSE, absent |-> {}, hashed |-> <<>>,
   swept |-> <<>>, warned |-> {}]

\* The catalog is empty and the watch directory holds two copies of one
\* document.
Init ==
  /\ disk = [p \in Files |-> IF p \in Paths THEN 2 ELSE NoFile]
  /\ docs = {}
  /\ chunks = {}
  /\ jobs = <<>>
  /\ nextId = 1
  /\ ing = [r \in Runners |-> IdleCall]
  /\ sync = [s \in Syncs |-> IdleSync]
  /\ fsOps = 0
  /\ syncRuns = 0
  /\ retId = [h \in Digests |-> 0]
  /\ retPaths = [h \in Digests |-> {}]
  /\ poison = {}
  /\ summary = ZeroStats
  /\ batch = IdleBatch
  /\ task = NoTask
  /\ root = "dir"
  /\ scan = NoScan
  /\ qdrant = [up |-> TRUE, warned |-> {}]

(* ------------------------------------------------------------------ *)
(* The catalog store as the sessions see it                             *)
(* ------------------------------------------------------------------ *)
\* The states of a call in which its session holds an open transaction
\* with the inserted document row.
InTx(r) == ing[r].pc \in {"work", "commit"}

file_hash(r) == compute_file_hash(ing[r].content)

\* A dedup check that looks for nothing.
existing_none(r) == {}

\* A dedup check that looks for the digest under the same path only.
existing_same_path(r) == {d \in docs : d.hash = file_hash(r) /\ d.path = ing[r].path}

\* A dedup check that also finds the rows of the attempts that failed.
existing_attempted(r) ==
  {d \in docs : d.hash = file_hash(r)}
  \cup {ing[f].doc : f \in {g \in Runners : /\ ing[g].pc = "raised"
                                           /\ ing[g].doc.status = "failed"
                                           /\ ing[g].doc.hash = file_hash(r)}}

\* session.query(Document).filter(Document.hash == file_hash): the rows
\* another session has committed.
existing(r) == {d \in docs : d.hash = file_hash(r)}

\* No unique index on the digest.
UniqueViolation_off(h) == FALSE

\* hash = Column(String(64), unique=True): a committed row with the same
\* digest makes the INSERT fail.
UniqueViolation(h) == \E d \in docs : d.hash = h

\* The unique index makes an INSERT wait while another open transaction
\* holds an uncommitted row with the same digest, or an uncommitted delete
\* of the committed row with that digest.
InsertBlocked(r, h) ==
  \/ \E r2 \in Runners \ {r} : InTx(r2) /\ ing[r2].doc.hash = h
  \/ \E d \in docs, s \in Syncs :
       d.hash = h /\ d.doc_id \in sync[s].deleted \ {sync[s].unflushed}

(* ------------------------------------------------------------------ *)
(* History kept for the properties                                      *)
(* ------------------------------------------------------------------ *)
\* The first call that returns the id of a row of the catalog is recorded
\* under its digest, with the paths of the calls that returned that id.
Remember(h, id, p) ==
  LET live == \E d \in docs' : d.doc_id = id
  IN /\ retId' = IF live /\ retId[h] = 0 THEN [retId EXCEPT ![h] = id] ELSE retId
     /\ retPaths' = IF live /\ retId[h] \in {0, id}
                      THEN [retPaths EXCEPT ![h] = @ \cup {p}] ELSE retPaths

\* Rows deleted from the catalog are forgotten.
Forget(ids) ==
  /\ retId' = [h \in Digests |-> IF retId[h] \in ids THEN 0 ELSE retId[h]]
  /\ retPaths' = [h \in Digests |-> IF retId[h] \in ids THEN {} ELSE retPaths[h]]

\* What is kept of the Document object of a call that has ended.
Brief(d) ==
  [NoDoc EXCEPT !.doc_id = d.doc_id, !.hash = d.hash, !.status = d.status,
                !.error_msg = d.error_msg]

\* The call of runner r ends: by returning id, or by raising exc.
Ends(r, how, id, e, d, fl) ==
  ing' = [ing EXCEPT ![r] =
            [IdleCall EXCEPT !.pc = how, !.result = id, !.exc = e,
                             !.doc = Brief(d), !.flushed = fl,
                             !.again = IF how # "returned" \/ d # NoDoc THEN ""
                                       ELSE IF ing[r].path \in retPaths[file_hash(r)] THEN "same"
                                       ELSE IF retPaths[file_hash(r)] # {} THEN "other"
                                       ELSE ""]]

(* ------------------------------------------------------------------ *)
(* ingest_document: one step per statement whose place among the steps  *)
(* of the other sessions matters                                        *)
(* ------------------------------------------------------------------ *)
\* Lines 33-36: hash and stat of the file.
ingest_document(r, p) ==
  /\ ing[r].pc \in Ended
  /\ disk[p] # NoFile
  /\ ing' = [ing EXCEPT ![r] = [IdleCall EXCEPT !.pc = "check", !.path = p,
                                                !.content = disk[p]]]
  /\ UNCHANGED <<docs, chunks, nextId, retId, retPaths>>

\* Lines 38-43: the session is opened and the dedup check made; an
\* existing row ends the call (the with-block commits an empty
\* transaction).
DedupCheck(r) ==
  /\ ing[r].pc = "check"
  /\ IF existing(r) # {}
       THEN \E d \in existing(r) :
              /\ Ends(r, "returned", d.doc_id, "none", NoDoc, {})
              /\ docs' = docs
              /\ Remember(file_hash(r), d.doc_id, ing[r].path)
       ELSE /\ ing' = [ing EXCEPT ![r].pc = "insert"]
            /\ UNCHANGED <<docs, retId, retPaths>>
  /\ UNCHANGED <<chunks, nextId>>

\* Lines 46-59: session.add(doc); session.flush().  The sequence value is
\* taken also when the INSERT fails.  The flush is outside the try block:
\* its exception goes straight to the rollback of get_session.
InsertDocument(r) ==
  /\ ing[r].pc = "insert"
  /\ nextId <= MaxDocId
  /\ ~InsertBlocked(r, file_hash(r))
  /\ nextId' = nextId + 1
  /\ IF UniqueViolation(file_hash(r))
       THEN Ends(r, "raised", 0, "IntegrityError", NoDoc, {})
       ELSE ing' = [ing EXCEPT ![r].pc = "work",
                      ![r].doc = Document(nextId, ing[r].path, file_hash(r),
                                          st_size(ing[r].content))]
  /\ UNCHANGED <<docs, chunks, retId, retPaths>>

\* Lines 70-71 and 97-98: the document is indexed with its page count.
MarkIndexed(d, c) == [d EXCEPT !.status = "indexed", !.total_page_cnt = total_pages(c)]

\* Lines 103-105: the except clause.
MarkFailed(d, exc) == [d EXCEPT !.status = "failed", !.error_msg = Truncate(MsgLen(exc))]

\* A pipeline that leaves the page count unset when there is no chunk.
PipelineOk_nopages(r) ==
  ing' = [ing EXCEPT ![r].pc = "commit",
                     ![r].pend = chunk_text(ing[r].content),
                     ![r].doc = IF chunk_text(ing[r].content) = {}
                                  THEN [@ EXCEPT !.status = "indexed"]
                                  ELSE MarkIndexed(@, ing[r].content)]

\* Lines 62-101: parse, chunk, embed, one DocChunk per (chunk, embedding)
\* pair added to the session, the document marked indexed; with no chunk
\* the embedder is not called.
PipelineOk(r) ==
  ing' = [ing EXCEPT ![r].pc = "commit",
                     ![r].pend = chunk_text(ing[r].content),
                     ![r].doc = MarkIndexed(@, ing[r].content)]

\* Lines 103-107 and get_session lines 27-29: parse or embed raises (a
\* timeout of the OCR service included); the except clause marks the
\* Document object failed and re-raises; get_session rolls the session
\* back, the INSERT of the document row included, and re-raises.
PipelineRaises(r, e) ==
  Ends(r, "raised", 0, e, MarkFailed(ing[r].doc, e), {})

\* The exceptions parse and embed raise.
WorkExc(c) == {"ParseError", "Timeout"} \cup (IF chunk_text(c) = {} THEN {} ELSE {"EmbedError"})

Pipeline(r) ==
  /\ ing[r].pc = "work"
  /\ \/ PipelineOk(r)
     \/ \E e \in WorkExc(ing[r].content) : PipelineRaises(r, e)
  /\ UNCHANGED <<docs, chunks, nextId, retId, retPaths>>

\* A commit that makes the document row and the first chunk row visible
\* and leaves the other chunk rows out.
CommitOk_firstchunk(r) ==
  /\ docs' = docs \cup {ing[r].doc}
  /\ chunks' = chunks \cup {DocChunk(ing[r].doc.doc_id, k) : k \in {j \in ing[r].pend : j < 1}}
  /\ Ends(r, "returned", ing[r].doc.doc_id, "none", ing[r].doc, ing[r].pend)
  /\ Remember(file_hash(r), ing[r].doc.doc_id, ing[r].path)

\* get_session, line 26: session.commit() flushes the chunk rows and
\* commits.
CommitOk(r) ==
  /\ docs' = docs \cup {ing[r].doc}
  /\ chunks' = chunks \cup {DocChunk(ing[r].doc.doc_id, k) : k \in ing[r].pend}
  /\ Ends(r, "returned", ing[r].doc.doc_id, "none", ing[r].doc, ing[r].pend)
  /\ Remember(file_hash(r), ing[r].doc.doc_id, ing[r].path)

\* get_session without session.rollback(), on a store that keeps what was
\* written before the failure.
CommitRaises_partial(r, n) ==
  /\ Ends(r, "raised", 0, "StoreError", ing[r].doc, {k \in ing[r].pend : k < n})
  /\ chunks' = chunks \cup {DocChunk(ing[r].doc.doc_id, k) : k \in {j \in ing[r].pend : j < n}}
  /\ UNCHANGED <<docs, retId, retPaths>>

\* get_session, lines 27-29: the store fails after n of the chunk INSERTs;
\* session.rollback() undoes them and the INSERT of the document row.
CommitRaises(r, n) ==
  /\ Ends(r, "raised", 0, "StoreError", ing[r].doc, {k \in ing[r].pend : k < n})
  /\ UNCHANGED <<docs, chunks, retId, retPaths>>

SessionCommit(r) ==
  /\ ing[r].pc = "commit"
  /\ \/ CommitOk(r)
     \/ \E n \in 0..Cardinality(ing[r].pend) : CommitRaises(r, n)
  /\ UNCHANGED nextId

IngestStep(r) ==
  \/ DedupCheck(r)
  \/ InsertDocument(r)
  \/ Pipeline(r)
  \/ SessionCommit(r)

\* A pipeline that pairs the vectors with the last chunks.
PipelineZip_last(r, nvec) ==
  ing' = [ing EXCEPT ![r].pc = "commit",
                     ![r].pend = {k \in chunk_text(ing[r].content) :
                                    k >= Cardinality(chunk_text(ing[r].content)) - nvec},
                     ![r].doc = MarkIndexed(@, ing[r].content)]

\* Lines 76-98 with an embedder that returns nvec vectors:
\* zip(chunks, embeddings) stops at the shorter of the two, so the first
\* nvec chunks get a DocChunk.
PipelineZip(r, nvec) ==
  ing' = [ing EXCEPT ![r].pc = "commit",
                     ![r].pend = {k \in chunk_text(ing[r].content) : k < nvec},
                     ![r].doc = MarkIndexed(@, ing[r].content)]

\* The pipeline with an embedder that may return fewer or more vectors
\* than it was given texts.
PipelineLoose(r) ==
  /\ ing[r].pc = "work"
  /\ \/ \E nvec \in 0..(Cardinality(chunk_text(ing[r].content)) + 1) : PipelineZip(r, nvec)
     \/ \E e \in WorkExc(ing[r].content) : PipelineRaises(r, e)
  /\ UNCHANGED <<docs, chunks, nextId, retId, retPaths>>

IngestStepLoose(r) ==
  \/ DedupCheck(r)
  \/ InsertDocument(r)
  \/ PipelineLoose(r)
  \/ SessionCommit(r)

(* ------------------------------------------------------------------ *)
(* Direct callers of ingest_document: the ingest_file task, the CLI,    *)
(* the full-pipeline endpoint                                           *)
(* ------------------------------------------------------------------ *)
WorkerCall(w, p) ==
  /\ ingest_document(w, p)
  /\ UNCHANGED <<disk, jobs, sync, fsOps, syncRuns, poison, summary, batch, task, root, scan, qdrant>>

WorkerStep(w) ==
  /\ IngestStep(w)
  /\ UNCHANGED <<disk, jobs, sync, fsOps, syncRuns, poison, summary, batch, task, root, scan, qdrant>>

WorkerStepLoose(w) ==
  /\ IngestStepLoose(w)
  /\ UNCHANGED <<disk, jobs, sync, fsOps, syncRuns, poison, summary, batch, task, root, scan, qdrant>>

\* The worker process dies while its session is open: the server aborts
\* the transaction.
WorkerCrash(w) ==
  /\ ing[w].pc = "work"
  /\ Ends(w, "crashed", 0, "none", ing[w].doc, {})
  /\ UNCHANGED <<disk, docs, chunks, jobs, nextId, sync, fsOps, syncRuns,
                 retId, retPaths, poison, summary, batch, task, root, scan, qdrant>>

(* ------------------------------------------------------------------ *)
(* run_sync                                                             *)
(* ------------------------------------------------------------------ *)
\* scan_directory(watch_dir): the files present, sorted by name, with
\* their sizes and no hash.
scan_directory ==
  LET present == SelectSeq(PathOrder, LAMBDA p : disk[p] # NoFile)
  IN [k \in 1..Len(present) |-> [path |-> present[k], size |-> st_size(disk[present[k]])]]

\* A scan that computes the digest of every file.
ScanHashes_all(files) ==
  [k \in 1..Len(files) |-> files[k].path]

\* scan_files(watch_dir, recursive=True, compute_hash=False): the paths
\* whose digest the scan computes.
ScanHashes(files) ==
  <<>>

\* A run_sync that does not look at the watch directory before the scan.
isdir_unchecked ==
  TRUE

\* Line 30: os.path.isdir(watch_dir).
isdir ==
  root = "dir"

ScannedPaths(files) == {files[k].path : k \in 1..Len(files)}

\* The other run_sync executions in progress.
Running(s) == {t \in Syncs \ {s} : sync[t].pc # "idle"}

\* The run before this one of s returned with no error and no overlapping
\* run, and nothing but run_sync has touched the watch directory or the
\* catalog since it started.
CleanBefore(s) ==
  /\ sync[s].ended = "returned" /\ sync[s].quiet /\ ~sync[s].overlap
  /\ sync[s].stats.errors = 0 /\ Running(s) = {}

\* The documents the query of lines 51-55 returns whose path is not in
\* the scan.
Absent(files) == {d.doc_id : d \in {e \in docs : e.path \notin ScannedPaths(files)}}

\* Lines 30-32: a missing watch directory ends the run with the error
\* dict.  Line 36: QdrantManager() asks the vector store for its
\* collections and raises out of run_sync when the store is down.  Lines 34-57: the scan, the job row (flushed, uncommitted) and db_map.
\* Of several rows with one path the dict keeps the one the query
\* returned last; the query has no ORDER BY.
SyncStart(s) ==
  /\ sync[s].pc = "idle"
  /\ syncRuns < MaxSyncRuns
  /\ syncRuns' = syncRuns + 1
  /\ IF ~isdir
       THEN sync' = [sync EXCEPT ![s] = [IdleSync EXCEPT !.ended = "error"]]
       ELSE IF ~qdrant.up
       THEN sync' = [sync EXCEPT ![s] = [IdleSync EXCEPT !.ended = "raised"]]
       ELSE \E m \in [Paths -> docs \cup {NoDoc}] :
              /\ \A p \in Paths :
                   IF \E d \in docs : d.path = p THEN m[p] # NoDoc /\ m[p].path = p
                   ELSE m[p] = NoDoc
              /\ sync' = [t \in Syncs |->
                           IF t = s
                             THEN [IdleSync EXCEPT !.pc = "loop", !.files = scan_directory,
                                                   !.db_map = m, !.overlap = Running(s) # {},
                                                   !.rerun = CleanBefore(s),
                                                   !.absent = Absent(scan_directory),
                                                   !.hashed = ScanHashes(scan_directory)]
                           ELSE IF t \in Running(s) THEN [sync[t] EXCEPT !.overlap = TRUE]
                           ELSE sync[t]]
  /\ UNCHANGED <<disk, docs, chunks, jobs, nextId, ing, fsOps, retId, retPaths,
                 poison, summary, batch, task, root, scan, qdrant>>

Bump(stats, key) == [stats EXCEPT ![key] = @ + 1]

\* The chunk rows of document id are deleted, uncommitted, by the session
\* of another run_sync: a DELETE of them waits for that session to end.
ChunkLocked(s, id) ==
  \E t \in Syncs \ {s} : id \in sync[t].deleted /\ \E c \in chunks : c.doc_id = id

\* The row of document id is deleted, uncommitted, by the session of
\* another run_sync.
RowLocked(s, id) ==
  \E t \in Syncs \ {s} : id \in sync[t].deleted \ {sync[t].unflushed}

\* The statements of _delete_document_data(session, doc) can run: the
\* query autoflushes the delete of the document deleted before, then
\* deletes the chunk rows.
CanDelete(s, d) ==
  /\ ~ChunkLocked(s, d.doc_id)
  /\ sync[s].unflushed # 0 => ~RowLocked(s, sync[s].unflushed)

\* Lines 124-127: delete_by_doc_id in its try; a failure of the vector
\* store is logged (warned) and goes no further.
delete_by_doc_id(rec, d) ==
  IF qdrant.up THEN rec ELSE [rec EXCEPT !.warned = @ \cup {d.doc_id}]

\* Rows that are deleted only when the vectors were.
DeleteRows_unlesswarned(rec, d) ==
  IF d.doc_id \in rec.warned THEN rec
  ELSE [rec EXCEPT !.deleted = @ \cup {d.doc_id}, !.unflushed = d.doc_id]

\* Lines 129-130: the chunk rows are deleted at once, the document row at
\* the next flush of the session.
DeleteRows(rec, d) ==
  [rec EXCEPT !.deleted = @ \cup {d.doc_id}, !.unflushed = d.doc_id]

\* A _delete_document_data that deletes nothing.
delete_document_data_keep(s, d) == s

\* _delete_document_data(session, doc).
delete_document_data(s, d) ==
  DeleteRows(delete_by_doc_id(s, d), d)

\* A statement of _delete_document_data raises (the store fails, or the
\* transaction of the session is already aborted): the except clause of
\* the loop counts an error and the loop goes on.  The transaction of the
\* session is aborted from then on: every later statement in it raises.
DeleteRaises(rec) == [rec EXCEPT !.stats = Bump(@, "errors"), !.broken = TRUE]

\* A comparison that takes equal sizes for equal content.
SameContent_size(old, p) == old.size = st_size(disk[p])

\* Lines 84 and 90: the stored digest against the digest of the file.
SameContent(old, p) == old.hash = compute_file_hash(disk[p])

\* Lines 60-101, up to the call of ingest_document: the branch taken for
\* the next path on disk.
SyncClassify(s) ==
  /\ sync[s].pc = "loop"
  /\ sync[s].i <= Len(sync[s].files)
  /\ LET f == sync[s].files[sync[s].i]
         old == sync[s].db_map[f.path]
         cmp == [sync[s] EXCEPT !.hashed = Append(@, f.path)]
         next == [sync[s] EXCEPT !.i = @ + 1]
         redo(why) == [delete_document_data(sync[s], old) EXCEPT
                         !.pc = "call", !.path = f.path, !.kind = "modified", !.by = why]
         hnext == [cmp EXCEPT !.i = @ + 1]
         hredo == [delete_document_data(cmp, old) EXCEPT
                     !.pc = "call", !.path = f.path, !.kind = "modified", !.by = "hash"]
     IN IF old = NoDoc
          THEN sync' = [sync EXCEPT ![s] = [@ EXCEPT !.pc = "call", !.path = f.path,
                                                     !.kind = "new", !.by = ""]]
          ELSE IF old.size # f.size
            THEN \/ ~sync[s].broken /\ CanDelete(s, old)
                      /\ sync' = [sync EXCEPT ![s] = redo("size")]
                 \/ sync' = [sync EXCEPT ![s] = DeleteRaises(delete_by_doc_id(next, old))]
            ELSE IF disk[f.path] = NoFile
              THEN sync' = [sync EXCEPT ![s] = [hnext EXCEPT !.stats = Bump(@, "errors")]]
              ELSE IF ~SameContent(old, f.path)
                THEN \/ ~sync[s].broken /\ CanDelete(s, old)
                          /\ sync' = [sync EXCEPT ![s] = hredo]
                     \/ sync' = [sync EXCEPT ![s] = DeleteRaises(delete_by_doc_id(hnext, old))]
                ELSE sync' = [sync EXCEPT ![s] = [hnext EXCEPT !.stats = Bump(@, "unchanged")]]
  /\ UNCHANGED <<disk, docs, chunks, jobs, nextId, ing, fsOps, syncRuns,
                 retId, retPaths, poison, summary, batch, task, root, scan, qdrant>>

\* ingest_document(abs_path) inside the try: a file that has gone since
\* the scan makes compute_file_hash raise, which counts as an error.
SyncCall(s) ==
  /\ sync[s].pc = "call"
  /\ IF disk[sync[s].path] = NoFile
       THEN /\ sync' = [sync EXCEPT ![s] = [@ EXCEPT !.pc = "loop", !.i = @ + 1,
                                                     !.stats = Bump(@, "errors")]]
            /\ UNCHANGED <<ing, docs, chunks, nextId, retId, retPaths>>
       ELSE /\ ingest_document(s, sync[s].path)
            /\ sync' = [sync EXCEPT ![s].pc = "ingest"]
  /\ UNCHANGED <<disk, jobs, fsOps, syncRuns, poison, summary, batch, task, root, scan, qdrant>>

\* The exceptions of the pipeline proper (parse, chunk, embed, persist).
PipelineExc == {"ParseError", "Timeout", "EmbedError", "StoreError"}

\* A loop whose except clauses count nothing.
AfterIngest_uncounted(s, how) ==
  [sync[s] EXCEPT
     !.pc = "loop", !.i = @ + 1,
     !.stats = IF how = "returned" THEN Bump(@, sync[s].kind) ELSE @,
     !.failed = IF how = "raised" /\ ing'[s].exc \in PipelineExc
                  THEN @ \cup {[path |-> sync[s].path, content |-> ing[s].content]}
                  ELSE @]

\* stats[...] += 1 after the call, or stats["errors"] += 1 in the except.
AfterIngest(s, how) ==
  [sync[s] EXCEPT
     !.pc = "loop", !.i = @ + 1,
     !.stats = Bump(@, IF how = "returned" THEN sync[s].kind ELSE "errors"),
     !.failed = IF how = "raised" /\ ing'[s].exc \in PipelineExc
                  THEN @ \cup {[path |-> sync[s].path, content |-> ing[s].content]}
                  ELSE @]

\* The steps of the call made by run_sync; when the call ends the loop
\* goes on in the same thread.
SyncIngestStep(s) ==
  /\ sync[s].pc = "ingest"
  /\ IngestStep(s)
  /\ sync' = IF ing'[s].pc \in {"returned", "raised"}
               THEN [sync EXCEPT ![s] = AfterIngest(s, ing'[s].pc)] ELSE sync
  /\ UNCHANGED <<disk, jobs, fsOps, syncRuns, poison, summary, batch, task, root, scan, qdrant>>

\* A sweep that sweeps nothing.
Gone_unswept(s) ==
  {}

\* Lines 104-105: the documents of db_map whose path the scan did not find.
Gone(s) ==
  {sync[s].db_map[p].doc_id : p \in
     {q \in Paths : sync[s].db_map[q] # NoDoc /\ q \notin ScannedPaths(sync[s].files)}}

\* Line 104: for abs_path, doc in db_map.items().  The dict keeps its keys
\* in the order in which the query of lines 51-55 first returned a row of
\* each path; the query has no ORDER BY, so any order of the paths.
SweepOrders(s) ==
  LET gone == {q \in Paths : sync[s].db_map[q] # NoDoc /\ q \notin ScannedPaths(sync[s].files)}
      n == Cardinality(gone)
  IN {o \in [1..n -> gone] : \A i \in 1..n, j \in 1..n : o[i] = o[j] => i = j}

\* The documents whose vector delete has failed in the run, the sweep
\* included: line 125 runs for every swept document.
SweepWarned(s) ==
  sync[s].warned \cup (IF qdrant.up THEN {} ELSE Gone(s))

\* Line 119: return stats.  Of the run that has ended are kept (history)
\* its stats, the files whose pipeline failed, whether the watch
\* directory stayed as it was and whether another run overlapped with it.
Returned(s) ==
  [IdleSync EXCEPT !.ended = "returned", !.failed = sync[s].failed,
                   !.stats = [sync[s].stats EXCEPT !.deleted = @ + Cardinality(Gone(s))],
                   !.quiet = sync[s].quiet, !.overlap = sync[s].overlap,
                   !.rerun = sync[s].rerun, !.absent = sync[s].absent]

\* get_session, lines 27-29, at the end of run_sync: the session raises
\* and is rolled back, the job row and every delete of the run with it.
Raised(s, k) ==
  [IdleSync EXCEPT !.ended = "raised", !.failed = sync[s].failed,
                   !.stats = [sync[s].stats EXCEPT
                                !.deleted = @ + k,
                                !.errors = @ + Cardinality(Gone(s)) - k],
                   !.quiet = sync[s].quiet, !.overlap = sync[s].overlap,
                   !.rerun = sync[s].rerun, !.absent = sync[s].absent]

\* Lines 115-116: the job row as the commit writes it; last_error is None
\* (no message) or the message made of the stats.
SystemJob(stats) ==
  [status |-> IF stats.errors = 0 THEN "completed" ELSE "completed_with_errors",
   last_error |-> IF stats.errors > 0 THEN {stats} ELSE {}]

\* Lines 103-117 and the commit of the session: the sweep of the catalog
\* paths absent from the scan, the job status, and one commit for the job
\* row and every delete of the run.
SweepCommit(s) ==
  /\ ~sync[s].broken
  /\ LET gone == Gone(s)
         del == sync[s].deleted \cup gone
         stats == [sync[s].stats EXCEPT !.deleted = @ + Cardinality(gone)]
     IN /\ \A id \in gone : ~ChunkLocked(s, id)
        /\ \A id \in gone \cup ({sync[s].unflushed} \ {0}) : ~RowLocked(s, id)
        /\ docs' = {d \in docs : d.doc_id \notin del}
        /\ chunks' = {c \in chunks : c.doc_id \notin del}
        /\ jobs' = Append(jobs, SystemJob(stats))
        /\ summary' = stats
        /\ Forget(del)
  /\ \E o \in SweepOrders(s) :
       sync' = [sync EXCEPT ![s] = [Returned(s) EXCEPT !.swept = o, !.warned = SweepWarned(s)]]

\* Lines 103-117 with a failing delete: k documents are swept, the delete
\* of the next one raises and so does every statement after it, each
\* counted as an error; the commit of an aborted transaction raises out
\* of run_sync.
SweepRaises(s, k) ==
  /\ IF sync[s].broken THEN k = 0 ELSE k < Cardinality(Gone(s))
  /\ \E o \in SweepOrders(s) :
       sync' = [sync EXCEPT ![s] = [Raised(s, k) EXCEPT !.swept = o, !.warned = SweepWarned(s)]]
  /\ UNCHANGED <<docs, chunks, jobs, summary, retId, retPaths>>

SyncFinish(s) ==
  /\ sync[s].pc = "loop"
  /\ sync[s].i > Len(sync[s].files)
  /\ \/ SweepCommit(s)
     \/ \E k \in 0..Cardinality(Gone(s)) : SweepRaises(s, k)
  /\ poison' = poison \cup {f \in sync[s].failed : disk[f.path] = f.content}
  /\ UNCHANGED <<disk, nextId, ing, fsOps, syncRuns, batch, task, root, scan, qdrant>>

\* The steps of one run_sync execution.
SyncStep(s) ==
  \/ SyncStart(s)
  \/ SyncClassify(s)
  \/ SyncCall(s)
  \/ SyncIngestStep(s)
  \/ SyncFinish(s)

(* ------------------------------------------------------------------ *)
(* The delete endpoint and the file system                              *)
(* ------------------------------------------------------------------ *)
\* A delete endpoint that leaves the chunk rows of the document.
delete_document_rowonly(id) ==
  /\ \E d \in docs : d.doc_id = id
  /\ ~RowLocked("", id)
  /\ docs' = {d \in docs : d.doc_id # id}
  /\ Forget({id})
  /\ sync' = [s \in Syncs |-> [sync[s] EXCEPT !.quiet = FALSE]]
  /\ UNCHANGED <<disk, chunks, jobs, nextId, ing, fsOps, syncRuns, poison, summary, batch, task, root, scan, qdrant>>

\* delete_document(doc_id), documents.py: the chunk rows and the row are
\* deleted in one transaction; a failure of the vector store is logged.
\* The DELETE waits for a row that run_sync has deleted and not committed.
delete_document(id) ==
  /\ \E d \in docs : d.doc_id = id
  /\ ~RowLocked("", id)
  /\ ~ChunkLocked("", id)
  /\ docs' = {d \in docs : d.doc_id # id}
  /\ chunks' = {c \in chunks : c.doc_id # id}
  /\ Forget({id})
  /\ sync' = [s \in Syncs |-> [sync[s] EXCEPT !.quiet = FALSE]]
  /\ qdrant' = IF qdrant.up THEN qdrant ELSE [qdrant EXCEPT !.warned = @ \cup {id}]
  /\ UNCHANGED <<disk, jobs, nextId, ing, fsOps, syncRuns, poison, summary, batch, task, root, scan>>

(* ------------------------------------------------------------------ *)
(* scan_files                                                           *)
(* ------------------------------------------------------------------ *)
\* The entries a directory can hold: regular files at the top and in a
\* subdirectory, and a directory whose name ends in .pdf.
Entry(stem, ext, where) == [stem |-> stem, ext |-> ext, where |-> where]

Entries ==
  {Entry("a", ".pdf", "top"), Entry("b", ".pdf", "top"), Entry("c", ".pdf", "top"),
   Entry("a", ".pdf", "sub"), Entry("b", ".PDF", "top"), Entry("c", ".txt", "top"),
   Entry("d", ".pdf", "dir")}

\* Line 11, as far as the extensions of Entries go.
SUPPORTED_EXTENSIONS == {".pdf", ".docx", ".png"}

\* The extension filters a caller passes.
Filters ==
  {[given |-> FALSE, exts |-> {}], [given |-> TRUE, exts |-> {}],
   [given |-> TRUE, exts |-> {".txt"}], [given |-> TRUE, exts |-> {".PDF"}]}

\* pattern: no pattern, or the pattern "*"; recursive; extensions.
Options == [pattern : BOOLEAN, recursive : BOOLEAN, extensions : Filters]

\* str.lower() and str.lstrip(".") on the extensions of Entries.
Lower(ext) == IF ext = ".PDF" THEN ".pdf" ELSE ext
Bare(ext) == IF ext = ".pdf" THEN "pdf" ELSE IF ext = ".txt" THEN "txt" ELSE "PDF"

\* Code points: the place of f.name = stem + ext in the order of str.
NameKey(e) ==
  10 * (IF e.stem = "a" THEN 1 ELSE IF e.stem = "b" THEN 2 ELSE IF e.stem = "c" THEN 3 ELSE 4)
  + (IF e.ext = ".PDF" THEN 1 ELSE IF e.ext = ".pdf" THEN 2 ELSE 3)

\* Line 53: extensions or SUPPORTED_EXTENSIONS; an empty set is falsy.
target_exts(o) ==
  IF o.extensions.given /\ o.extensions.exts # {} THEN o.extensions.exts
  ELSE SUPPORTED_EXTENSIONS

\* Lines 57-70: glob and os.walk give nothing for a root that does not
\* exist or is not a directory; Path(directory).iterdir() raises.
ScanRaises(o) ==
  root # "dir" /\ ~o.pattern /\ ~o.recursive

\* Lines 57-70: the candidates, in the order of the listing.
candidates(l, o) ==
  IF root # "dir" THEN <<>>
  ELSE IF o.pattern \/ ~o.recursive
    THEN SelectSeq(l, LAMBDA e : e.where = "top")
  ELSE SelectSeq(l, LAMBDA e : e.where \in {"top", "sub"})

\* Lines 72-75: the extension filter.
Kept(l, o) == SelectSeq(candidates(l, o), LAMBDA e : Lower(e.ext) \in target_exts(o))

\* FileInfo(name=fpath.name, extension=ext, ...)
FileInfo(e) == [path |-> e, name |-> <<e.stem, e.ext>>, extension |-> Lower(e.ext)]

\* A scan that returns the files as the file system listed them.
SortByName_unsorted(seq) ==
  seq

\* Line 92: files.sort(key=lambda f: f.name), a stable sort.
SortByName(seq) ==
  LET n == Len(seq)
      place(k) == 1 + Cardinality({j \in 1..n :
                        \/ NameKey(seq[j]) < NameKey(seq[k])
                        \/ NameKey(seq[j]) = NameKey(seq[k]) /\ j < k})
  IN [p \in 1..n |-> seq[CHOOSE k \in 1..n : place(k) = p]]

\* Lines 88-89: by_type, keyed by the extension without its dot.
by_type(kept) ==
  [b \in {Bare(Lower(kept[k].ext)) : k \in 1..Len(kept)} |->
     Cardinality({k \in 1..Len(kept) : Bare(Lower(kept[k].ext)) = b})]

\* Lines 96-101: the ScanResult, or the exception of iterdir.
ScanResult(l, o) ==
  IF ScanRaises(o)
    THEN [NoResult EXCEPT !.status = "raised"]
    ELSE LET sorted == SortByName(Kept(l, o))
         IN [status |-> "ok",
             files |-> [k \in 1..Len(sorted) |-> FileInfo(sorted[k])],
             total_files |-> Len(sorted),
             by_type |-> by_type(Kept(l, o))]

\* scan_files(directory, extensions, pattern, recursive)
ScanFiles(o) ==
  /\ scan.count < MaxScans
  /\ scan' = [scan EXCEPT !.options = o, !.result = ScanResult(scan.listing, o),
                          !.count = @ + 1]
  /\ UNCHANGED <<disk, docs, chunks, jobs, nextId, ing, sync, fsOps, syncRuns,
                 retId, retPaths, poison, summary, batch, task, root, qdrant>>

\* An entry appears in the directory; the file system lists it last.
AddEntry(e) ==
  /\ root = "dir"
  /\ Len(scan.listing) < MaxEntries
  /\ \A k \in 1..Len(scan.listing) : scan.listing[k] # e
  /\ scan' = [NoScan EXCEPT !.listing = Append(scan.listing, e)]
  /\ UNCHANGED <<disk, docs, chunks, jobs, nextId, ing, sync, fsOps, syncRuns,
                 retId, retPaths, poison, summary, batch, task, root, qdrant>>

\* The directory is removed, replaced by a regular file, or created
\* again, empty.
DirReplace(k) ==
  /\ root # k
  /\ root' = k
  /\ scan' = NoScan
  /\ disk' = [p \in Files |-> NoFile]
  /\ UNCHANGED <<docs, chunks, jobs, nextId, ing, sync, fsOps, syncRuns,
                 retId, retPaths, poison, summary, batch, task, qdrant>>

(* ------------------------------------------------------------------ *)
(* ingest_file task                                                     *)
(* ------------------------------------------------------------------ *)
\* @celery_app.task(bind=True, max_retries=3, ...)
max_retries == 3

\* ingest_document_endpoint: ingest_file.delay(file_path), for any path.
TaskSubmit(p) ==
  /\ task.pc = "none"
  /\ task' = [NoTask EXCEPT !.pc = "queued", !.path = p]
  /\ UNCHANGED <<disk, docs, chunks, jobs, nextId, ing, sync, fsOps, syncRuns,
                 retId, retPaths, poison, summary, batch, root, scan, qdrant>>

\* A task that is queued again after every run that raised.
TaskRaised_always(t) ==
  [t EXCEPT !.pc = "queued", !.retries = @ + 1, !.last = "raised"]

\* Lines 16-18: self.retry(exc=exc) queues the task again with one more
\* retry, or raises exc when max_retries is reached.
TaskRaised(t) ==
  IF t.retries < max_retries
    THEN [t EXCEPT !.pc = "queued", !.retries = @ + 1, !.last = "raised"]
    ELSE [t EXCEPT !.pc = "failed", !.last = "raised"]

\* Line 13: a worker takes the message and calls ingest_document; a file
\* that is not there makes the call raise at once.
TaskRun ==
  /\ task.pc = "queued"
  /\ ing["task"].pc \in Ended
  /\ IF disk[task.path] = NoFile
       THEN /\ task' = TaskRaised([task EXCEPT !.runs = @ + 1])
            /\ UNCHANGED <<ing, docs, chunks, nextId, retId, retPaths>>
       ELSE /\ ingest_document("task", task.path)
            /\ task' = [task EXCEPT !.pc = "running", !.runs = @ + 1]
  /\ UNCHANGED <<disk, jobs, sync, fsOps, syncRuns, poison, summary, batch, root, scan, qdrant>>

\* Lines 13-18: the steps of the call; line 15 returns the result.
TaskIngestStep ==
  /\ task.pc = "running"
  /\ IngestStep("task")
  /\ task' = IF ing'["task"].pc = "returned"
               THEN [task EXCEPT !.pc = "ok", !.last = "returned"]
             ELSE IF ing'["task"].pc = "raised" THEN TaskRaised(task)
             ELSE task
  /\ UNCHANGED <<disk, jobs, sync, fsOps, syncRuns, poison, summary, batch, root, scan, qdrant>>

\* celery_app.py line 16, task_acks_late=True: the message is acknowledged
\* after the run, so when the worker is lost during the run the broker
\* delivers the message again, with the same retry count.
TaskLost ==
  /\ task.pc = "running"
  /\ task.lost < MaxLost
  /\ Ends("task", "crashed", 0, "none", ing["task"].doc, {})
  /\ task' = [task EXCEPT !.pc = "queued", !.lost = @ + 1, !.last = "lost"]
  /\ UNCHANGED <<disk, docs, chunks, jobs, nextId, sync, fsOps, syncRuns,
                 retId, retPaths, poison, summary, batch, root, scan, qdrant>>

TaskStep ==
  \/ \E p \in Paths : TaskSubmit(p)
  \/ TaskRun
  \/ TaskIngestStep
  \/ TaskLost

(* ------------------------------------------------------------------ *)
(* scan_and_ingest                                                      *)
(* ------------------------------------------------------------------ *)
\* scan_files(directory).files: the files present, sorted by name.
scan_files == SelectSeq(BatchOrder, LAMBDA p : disk[p] # NoFile)

\* Lines 117-119: the scan and the zeroed results.
BatchStart ==
  /\ batch.pc = "idle"
  /\ batch.runs < MaxBatchRuns
  /\ batch' = [IdleBatch EXCEPT !.pc = "loop", !.files = scan_files,
                                !.results = [ZeroResults EXCEPT !.total = Len(scan_files)],
                                !.runs = batch.runs + 1]
  /\ UNCHANGED <<disk, docs, chunks, jobs, nextId, ing, sync, fsOps, syncRuns,
                 retId, retPaths, poison, summary, task, root, scan, qdrant>>

\* A runner that counts a success and writes no entry for it.
BatchOk_nodetail(b, doc_id, dedup) ==
  [b EXCEPT !.i = @ + 1, !.pc = "loop",
            !.results = [@ EXCEPT !.success = @ + 1],
            !.deduped = IF dedup THEN @ \cup {b.i} ELSE @]

\* Lines 124-125: the call returned doc_id.
BatchOk(b, doc_id, dedup) ==
  [b EXCEPT !.i = @ + 1, !.pc = "loop",
            !.results = [@ EXCEPT !.success = @ + 1],
            !.details = Append(@, [file |-> b.files[b.i], status |-> "ok",
                                   doc_id |-> doc_id, error |-> 0]),
            !.deduped = IF dedup THEN @ \cup {b.i} ELSE @]

\* A runner that gives up at the first file that fails.
BatchFailed_abort(b, e) ==
  [b EXCEPT !.i = Len(b.files) + 1, !.pc = "loop",
            !.results = [@ EXCEPT !.failed = @ + 1],
            !.details = Append(@, [file |-> b.files[b.i], status |-> "error",
                                   doc_id |-> 0, error |-> Detail(MsgLen(e))])]

\* Lines 126-133: the call raised; no exception of ingest_document says
\* "already indexed", so the else branch is the one taken.
BatchFailed(b, e) ==
  [b EXCEPT !.i = @ + 1, !.pc = "loop",
            !.results = [@ EXCEPT !.failed = @ + 1],
            !.details = Append(@, [file |-> b.files[b.i], status |-> "error",
                                   doc_id |-> 0, error |-> Detail(MsgLen(e))])]

\* Line 123: ingest_document(f.path); a file that is gone since the scan
\* makes the call raise at once.
BatchCall ==
  /\ batch.pc = "loop"
  /\ batch.i <= Len(batch.files)
  /\ IF disk[batch.files[batch.i]] = NoFile
       THEN /\ batch' = BatchFailed(batch, "FileNotFoundError")
            /\ UNCHANGED <<ing, docs, chunks, nextId, retId, retPaths>>
       ELSE /\ ingest_document("batch", batch.files[batch.i])
            /\ batch' = [batch EXCEPT !.pc = "ingest"]
  /\ UNCHANGED <<disk, jobs, sync, fsOps, syncRuns, poison, summary, task, root, scan, qdrant>>

\* The steps of the call; when it ends the loop goes on.
BatchIngestStep ==
  /\ batch.pc = "ingest"
  /\ IngestStep("batch")
  /\ batch' = IF ing'["batch"].pc = "returned"
                THEN BatchOk(batch, ing'["batch"].result, ing["batch"].pc = "check")
              ELSE IF ing'["batch"].pc = "raised"
                THEN BatchFailed(batch, ing'["batch"].exc)
              ELSE batch
  /\ UNCHANGED <<disk, jobs, sync, fsOps, syncRuns, poison, summary, task, root, scan, qdrant>>

\* Lines 135-139: return results.
BatchFinish ==
  /\ batch.pc = "loop"
  /\ batch.i > Len(batch.files)
  /\ batch' = [batch EXCEPT !.pc = "idle", !.ended = "returned"]
  /\ UNCHANGED <<disk, docs, chunks, jobs, nextId, ing, sync, fsOps, syncRuns,
                 retId, retPaths, poison, summary, task, root, scan, qdrant>>

BatchStep ==
  \/ BatchStart
  \/ BatchCall
  \/ BatchIngestStep
  \/ BatchFinish

\* A file is written, replaced or removed by a user of the watch directory.
FsChange(p, c) ==
  /\ root = "dir"
  /\ fsOps < MaxFsOps
  /\ disk[p] # c
  /\ disk' = [disk EXCEPT ![p] = c]
  /\ fsOps' = fsOps + 1
  /\ poison' = {f \in poison : f.path # p}
  /\ sync' = [s \in Syncs |-> [sync[s] EXCEPT !.failed = {f \in @ : f.path # p},
                                                !.quiet = FALSE]]
  /\ UNCHANGED <<docs, chunks, jobs, nextId, ing, syncRuns, retId, retPaths, summary, batch, task, root, scan, qdrant>>

\* A file is overwritten with other bytes, any number of times.
FsWrite(p, c) ==
  /\ root = "dir"
  /\ disk[p] \notin {NoFile, c}
  /\ disk' = [disk EXCEPT ![p] = c]
  /\ poison' = {f \in poison : f.path # p}
  /\ sync' = [s \in Syncs |-> [sync[s] EXCEPT !.failed = {f \in @ : f.path # p},
                                                !.quiet = FALSE]]
  /\ UNCHANGED <<docs, chunks, jobs, nextId, ing, fsOps, syncRuns, retId, retPaths,
                 summary, batch, task, root, scan, qdrant>>

\* The vector store goes down or comes back.
QdrantChange ==
  /\ qdrant' = [qdrant EXCEPT !.up = ~@]
  /\ UNCHANGED <<disk, docs, chunks, jobs, nextId, ing, sync, fsOps, syncRuns,
                 retId, retPaths, poison, summary, batch, task, root, scan>>

\* The watch directory is removed with its files, replaced by a regular
\* file, or created again, empty.
RootChange(k) ==
  /\ fsOps < MaxFsOps
  /\ root # k
  /\ root' = k
  /\ fsOps' = fsOps + 1
  /\ disk' = [p \in Files |-> NoFile]
  /\ poison' = {}
  /\ sync' = [s \in Syncs |-> [sync[s] EXCEPT !.failed = {}, !.quiet = FALSE]]
  /\ UNCHANGED <<docs, chunks, jobs, nextId, ing, syncRuns, retId, retPaths, summary,
                 batch, task, scan, qdrant>>

\* A file is removed from the watch directory.
FsRemove(p) ==
  /\ disk[p] # NoFile
  /\ disk' = [disk EXCEPT ![p] = NoFile]
  /\ poison' = {f \in poison : f.path # p}
  /\ sync' = [s \in Syncs |-> [sync[s] EXCEPT !.failed = {f \in @ : f.path # p},
                                                !.quiet = FALSE]]
  /\ UNCHANGED <<docs, chunks, jobs, nextId, ing, fsOps, syncRuns, retId, retPaths,
                 summary, batch, task, root, scan, qdrant>>

\* A file is moved to a path where no file is (rename).
FsMove(p, q) ==
  /\ disk[p] # NoFile /\ disk[q] = NoFile
  /\ disk' = [disk EXCEPT ![p] = NoFile, ![q] = disk[p]]
  /\ poison' = {f \in poison : f.path \notin {p, q}}
  /\ sync' = [s \in Syncs |-> [sync[s] EXCEPT !.failed = {f \in @ : f.path \notin {p, q}},
                                                !.quiet = FALSE]]
  /\ UNCHANGED <<docs, chunks, jobs, nextId, ing, fsOps, syncRuns, retId, retPaths,
                 summary, batch, task, root, scan, qdrant>>

\* The whole system: one direct caller, run_sync, the delete endpoint and
\* the users of the watch directory.
Next ==
  \/ \E p \in Paths : WorkerCall("w1", p)
  \/ WorkerStep("w1")
  \/ WorkerCrash("w1")
  \/ SyncStep("sync")
  \/ \E id \in 1..MaxDocId : delete_document(id)
  \/ \E p \in Paths, c \in Contents \cup {NoFile} : FsChange(p, c)

Spec == Init /\ [][Next]_vars

\* Two direct callers of ingest_document at once, no run_sync.
NextIngest ==
  \/ \E w \in Workers, p \in Paths : WorkerCall(w, p)
  \/ \E w \in Workers : WorkerStep(w)
  \/ \E w \in Workers : WorkerCrash(w)
  \/ \E id \in 1..MaxDocId : delete_document(id)
  \/ \E p \in Paths, c \in Contents \cup {NoFile} : FsChange(p, c)

SpecIngest == Init /\ [][NextIngest]_vars

\* run_sync alone, with the delete endpoint and the users of the watch
\* directory.
NextSync ==
  \/ SyncStep("sync")
  \/ \E id \in 1..MaxDocId : delete_document(id)
  \/ \E p \in Paths, c \in Contents \cup {NoFile} : FsChange(p, c)

SpecSync == Init /\ [][NextSync]_vars

\* Two run_sync executions at once (the scheduled task and the endpoint),
\* with the users of the watch directory.
NextSync2 ==
  \/ \E s \in Syncs : SyncStep(s)
  \/ \E p \in Paths, c \in Contents \cup {NoFile} : FsChange(p, c)

SpecSync2 == Init /\ [][NextSync2]_vars

\* The ingest endpoint's worker, run_sync and the users of the watch
\* directory, one at a time: a call or a run starts when nothing else is
\* in progress, a file changes between them.
Quiescent == ing["w1"].pc \in Ended /\ sync["sync"].pc = "idle"

NextSeq ==
  \/ Quiescent /\ \E p \in Paths : WorkerCall("w1", p)
  \/ WorkerStep("w1")
  \/ ing["w1"].pc \in Ended /\ SyncStep("sync")
  \/ Quiescent /\ \E p \in Paths, c \in Contents : FsChange(p, c)
  \/ Quiescent /\ \E p \in Paths : FsRemove(p)

SpecSeq == Init /\ [][NextSeq]_vars

\* run_sync and the delete endpoint over a watch directory whose files
\* are removed and moved.
NextMove ==
  \/ SyncStep("sync")
  \/ \E id \in 1..MaxDocId : delete_document(id)
  \/ \E p \in Paths : FsRemove(p)
  \/ \E p \in Paths, q \in Paths : FsMove(p, q)

SpecMove == Init /\ [][NextMove]_vars

\* scan_and_ingest with the delete endpoint, over a directory whose
\* files change.
NextBatch ==
  \/ BatchStep
  \/ \E id \in 1..MaxDocId : delete_document(id)
  \/ \E p \in Files, c \in Contents \cup {NoFile} : FsChange(p, c)

SpecBatch == Init /\ [][NextBatch]_vars

\* One submission of the ingest_file task, with the delete endpoint and
\* the users of the watch directory.
NextTask ==
  \/ TaskStep
  \/ \E id \in 1..MaxDocId : delete_document(id)
  \/ \E p \in Paths, c \in Contents \cup {NoFile} : FsChange(p, c)

SpecTask == Init /\ [][NextTask]_vars

\* run_sync and a direct caller over a watch directory that can go away.
NextRoot ==
  \/ \E p \in Paths : WorkerCall("w1", p)
  \/ WorkerStep("w1")
  \/ SyncStep("sync")
  \/ \E k \in {"dir", "file", "missing"} : RootChange(k)

SpecRoot == Init /\ [][NextRoot]_vars

\* A direct caller whose embedder may return a wrong number of vectors,
\* with the delete endpoint and the users of the watch directory.
NextEmbed ==
  \/ \E p \in Paths : WorkerCall("w1", p)
  \/ WorkerStepLoose("w1")
  \/ \E id \in 1..MaxDocId : delete_document(id)
  \/ \E p \in Paths, c \in Contents \cup {NoFile} : FsChange(p, c)

SpecEmbed == Init /\ [][NextEmbed]_vars

\* The ingest endpoint's worker and run_sync, one at a time, over a file
\* that is overwritten between them.
NextEdit ==
  \/ Quiescent /\ WorkerCall("w1", "a.pdf")
  \/ WorkerStep("w1")
  \/ ing["w1"].pc \in Ended /\ SyncStep("sync")
  \/ Quiescent /\ \E c \in Contents : FsWrite("a.pdf", c)

SpecEdit == Init /\ [][NextEdit]_vars

\* run_sync and the delete endpoint with a vector store that goes down,
\* over a watch directory in which a.pdf changes.
NextVec ==
  \/ SyncStep("sync")
  \/ \E id \in 1..MaxDocId : delete_document(id)
  \/ \E c \in Contents \cup {NoFile} : FsChange("a.pdf", c)
  \/ qdrant.up /\ QdrantChange

SpecVec == Init /\ [][NextVec]_vars

\* scan_files over a directory whose entries come and go.
NextScan ==
  \/ \E o \in Options : ScanFiles(o)
  \/ \E e \in Entries : AddEntry(e)
  \/ \E k \in {"dir", "file", "missing"} : DirReplace(k)

SpecScan == Init /\ [][NextScan]_vars

(* ------------------------------------------------------------------ *)
(* Properties                                                           *)
(* ------------------------------------------------------------------ *)
\* The call of runner r makes its dedup check in this step.
Checks(r) == ing[r].pc = "check" /\ ing'[r].pc # "check"

\* C1: idempotence of ingest.  When a finished call on a path returned
\* the id of a row that is still in the catalog, a further call on that
\* path with the same bytes returns the same id at its dedup check and
\* adds no document or chunk row.
C1_Idempotent ==
  [][\A r \in Runners :
       (Checks(r) /\ retId[file_hash(r)] # 0 /\ ing[r].path \in retPaths[file_hash(r)])
       => /\ ing'[r].pc = "returned"
          /\ ing'[r].result = retId[file_hash(r)]
          /\ chunks' = chunks
          /\ docs' = docs]_vars

\* A second call on the same path has returned the id of the first.
C1_Witness ==
  \E r \in Runners : /\ ing[r].pc = "returned" /\ ing[r].again = "same"
                     /\ \E h \in Digests : retId[h] = ing[r].result

\* C2: dedup by content.  When a finished call on one path returned the
\* id of a row still in the catalog, a call on another path holding the
\* same bytes returns that id at its dedup check, before parse, chunk and
\* embed, and the catalog keeps exactly one document with that digest.
C2_DedupByContent ==
  [][\A r \in Runners :
       (Checks(r) /\ retId[file_hash(r)] # 0 /\ retPaths[file_hash(r)] \ {ing[r].path} # {})
       => /\ ing'[r].pc = "returned"
          /\ ing'[r].result = retId[file_hash(r)]
          /\ Cardinality({d \in docs' : d.hash = file_hash(r)}) = 1
          /\ chunks' = chunks]_vars

\* A call on the second of two paths with equal bytes has returned the id
\* the call on the first path created.
C2_Witness ==
  \E r \in Runners : /\ ing[r].pc = "returned" /\ ing[r].again = "other"
                     /\ \E d \in docs : d.doc_id = ing[r].result /\ retId[d.hash] = d.doc_id

\* C3: fingerprint uniqueness.  No two rows of the catalog have the same
\* digest.
C3_FingerprintUnique ==
  \A d1 \in docs, d2 \in docs : d1.hash = d2.hash => d1 = d2

\* Two calls passed the dedup check for one digest and the second INSERT
\* met the row the first call committed.
C3_Witness ==
  \E r \in Runners : /\ ing[r].pc = "raised" /\ ing[r].exc = "IntegrityError"
                     /\ docs # {}

\* The call of runner r ends with an exception of parse, chunk, embed or
\* persist.
Fails(r) == InTx(r) /\ ing'[r].pc = "raised" /\ ing'[r].exc \in PipelineExc

\* C4: failure is recorded on the document row.  When parse, chunk, embed
\* or persist raises, then once the call has raised to its caller the
\* catalog contains the row created for that run, with status failed and
\* an error message of bounded length.
C4_FailureRecorded ==
  [][\A r \in Runners :
       Fails(r) => \E d \in docs' : /\ d.doc_id = ing[r].doc.doc_id
                                    /\ d.status = "failed"
                                    /\ d.error_msg \in 1..ErrMsgMax]_vars

\* C5: all-or-nothing chunk set.  After a call that ended with an
\* exception of parse, chunk, embed or persist the catalog holds no chunk
\* row of the document of that run, wherever in the chunk batch the
\* failure came.
C5_AllOrNothing ==
  \A r \in Runners :
    (ing[r].pc = "raised" /\ ing[r].exc \in PipelineExc)
    => \A c \in chunks : c.doc_id # ing[r].doc.doc_id

\* The store failed when part of the chunk batch of a run was written.
C5_Witness ==
  \E r \in Runners : /\ ing[r].pc = "raised" /\ ing[r].exc = "StoreError"
                     /\ ing[r].flushed # {} /\ ing[r].doc.doc_id # 0

\* C6: create-before-work.  While a run parses, chunks and embeds, and
\* after a crash of its process in that phase, the catalog holds the row
\* of the run in status processing or failed.
C6_CreateBeforeWork ==
  \A r \in Runners :
    ing[r].pc \in {"work", "crashed"}
    => \E d \in docs : d.doc_id = ing[r].doc.doc_id /\ d.status \in {"processing", "failed"}

\* The status of every document row: of the committed rows and of the
\* Document objects the calls hold.
StatusOf ==
  {<<d.doc_id, d.status>> : d \in docs}
    \cup {<<ing[r].doc.doc_id, ing[r].doc.status>> : r \in {q \in Runners : ing[q].doc.doc_id # 0}}

StatusValues == {"pending", "processing", "indexed", "failed"}
StatusMoves ==
  {<<"pending", "processing">>, <<"processing", "indexed">>, <<"processing", "failed">>}

\* C7: status state machine.  Every row has one of the statuses pending,
\* processing, indexed, failed, and the status of a row changes only from
\* pending to processing and from processing to indexed or failed.
C7_StatusMachine ==
  [][/\ \A a \in StatusOf' : a[2] \in StatusValues
     /\ \A a \in StatusOf, b \in StatusOf' :
          (a[1] = b[1] /\ a[2] # b[2]) => <<a[2], b[2]>> \in StatusMoves]_vars

\* One run has marked its document failed and another run has committed
\* an indexed one.
C7_Witness ==
  /\ \E r \in Runners : ing[r].doc.status = "failed"
  /\ \E d \in docs : d.status = "indexed"

\* run_sync takes up the path p in this step of its loop.
TakesUp(s, p) ==
  sync[s].pc = "loop" /\ sync[s].i <= Len(sync[s].files)
    /\ sync[s].files[sync[s].i].path = p
    /\ (sync'[s].pc # "loop" \/ sync'[s].i # sync[s].i)

\* C8: no automatic retry of a poison file.  When the pipeline failed for
\* a path in a finished run_sync and the file has not changed since, a
\* later run_sync that comes to that path leaves its document in status
\* failed, does not call the pipeline for it and does not count it as new
\* or modified.
C8_NoAutoRetry ==
  [][\A f \in poison, s \in Syncs :
       TakesUp(s, f.path)
       => /\ \E d \in docs' : d.path = f.path /\ d.status = "failed"
          /\ sync'[s].pc # "call"
          /\ sync'[s].stats.new = sync[s].stats.new /\ sync'[s].kind # "new"
          /\ sync'[s].stats.modified = sync[s].stats.modified
          /\ sync'[s].kind # "modified"]_vars

\* The INSERT of runner r meets a committed row with the same digest in
\* this step.
LosesRace(r) ==
  ing[r].pc = "insert" /\ ing'[r].pc # "insert" /\ UniqueViolation(file_hash(r))

\* C9: benign race on creation.  A run that passed the dedup check and
\* meets the uniqueness violation when it creates its row does not raise:
\* it returns the id of the row the winner created.
C9_BenignRace ==
  [][\A r \in Runners :
       LosesRace(r)
       => /\ ing'[r].pc = "returned"
          /\ \E d \in docs : d.hash = file_hash(r) /\ ing'[r].result = d.doc_id]_vars

\* The ids of the rows in status processing that other runs have created
\* for the digest of the call of runner r and not yet committed.
InFlight(r) ==
  {ing[q].doc.doc_id : q \in {q \in Runners \ {r} :
      ing[q].pc = "work" /\ ing[q].doc.status = "processing"
        /\ ing[q].doc.hash = file_hash(r)}}

\* C10: the in-flight row is authoritative.  While a run for a digest is
\* between the creation of its row and its end, the dedup check of a
\* second call for the same digest finds that row and returns its id,
\* without creating a row or running parse, chunk or embed.
C10_InFlightAuthoritative ==
  [][\A r \in Runners :
       (Checks(r) /\ InFlight(r) # {})
       => /\ ing'[r].pc = "returned"
          /\ ing'[r].result \in InFlight(r)
          /\ nextId' = nextId]_vars

\* The run_sync execution s has ended, the watch directory is as it was
\* scanned and no pipeline step or store statement failed in the run.
EndedClean(s) ==
  /\ sync[s].pc = "idle" /\ sync[s].ended # "" /\ sync[s].quiet
  /\ sync[s].failed = {} /\ sync[s].stats.errors = 0

\* One live document per distinct content on disk, none for a path
\* missing from disk.
CatalogMatchesDisk ==
  /\ \A p \in Paths :
       disk[p] # NoFile =>
         Cardinality({d \in docs : d.hash = compute_file_hash(disk[p])}) = 1
  /\ \A d \in docs : disk[d.path] # NoFile

\* C11: sync is idempotent under concurrent runs.  When two run_sync
\* executions that overlapped in time over the same disk contents have
\* ended, both have returned their stats and the catalog holds one live
\* document per distinct on-disk content and no document for a path
\* missing from disk.
C11_ConcurrentSync ==
  (\A s \in Syncs : EndedClean(s) /\ sync[s].overlap)
  => /\ \A s \in Syncs : sync[s].ended = "returned"
     /\ CatalogMatchesDisk

\* C12: idle stability.  A run_sync that follows a run_sync with no
\* change of the watch directory in between reports new = 0, modified = 0,
\* deleted = 0 and unchanged equal to the number of documents of the
\* catalog.
C12_IdleStability ==
  \A s \in Syncs :
    (sync[s].pc = "idle" /\ sync[s].ended = "returned" /\ sync[s].rerun /\ sync[s].quiet)
    => /\ sync[s].stats.new = 0 /\ sync[s].stats.modified = 0 /\ sync[s].stats.deleted = 0
       /\ sync[s].stats.unchanged = Cardinality(docs)

\* The file and the catalog document of the path run_sync s takes up next.
NextFile(s) == sync[s].files[sync[s].i]
NextOld(s) == sync[s].db_map[NextFile(s).path]

\* run_sync s classifies the next path in this step.
Classifies(s) ==
  /\ sync[s].pc = "loop" /\ sync[s].i <= Len(sync[s].files)
  /\ (sync'[s].pc # "loop" \/ sync'[s].i # sync[s].i)

\* The call of ingest_document made by run_sync s commits a row it
\* created, or ends with an exception, in this step.
Creates(s) == sync[s].pc = "ingest" /\ ing[s].pc = "commit" /\ ing'[s].pc = "returned"
CallRaises(s) == sync[s].pc = "ingest" /\ ing'[s].pc = "raised"

\* The catalog holds an indexed document for the path, with the digest and
\* the chunk set of the content c.
Replaced(path, c) ==
  \E d \in docs' :
    /\ d.path = path /\ d.hash = compute_file_hash(c) /\ d.status = "indexed"
    /\ {k.chunk_idx : k \in {x \in chunks' : x.doc_id = d.doc_id}} = chunk_text(c)

\* run_sync s returns in this step, and the rows it deleted are gone.
SyncReturns(s) == sync[s].pc = "loop" /\ sync'[s].pc = "idle" /\ sync'[s].ended = "returned"
OldRemoved(s) ==
  \A id \in sync[s].deleted :
    (\A d \in docs' : d.doc_id # id) /\ (\A k \in chunks' : k.doc_id # id)

C17_FailureIsolation ==
  /\ \A s \in Syncs :
       (sync[s].pc = "idle" /\ sync[s].ended # "") => sync[s].ended = "returned"
  /\ \A s \in Syncs : sync[s].broken => sync[s].stats.errors > 0

\* C15: deletion detection.  When a run_sync has returned, every document
\* that was in the catalog at its start with a path absent from its scan
\* is counted under deleted, and neither its row nor a chunk row with its
\* id is in the catalog.
C15_DeletionDetection ==
  \A s \in Syncs :
    (sync[s].pc = "idle" /\ sync[s].ended = "returned")
    => /\ sync[s].stats.deleted = Cardinality(sync[s].absent)
       /\ \A id \in sync[s].absent :
            /\ \A d \in docs : d.doc_id # id
            /\ \A c \in chunks : c.doc_id # id

\* At the start of run_sync s an indexed file had been moved: its document
\* has a path that is not in the scan, and the scan has a path with no
\* document and the same bytes.
Moved(s) ==
  \E p \in Paths, q \in ScannedPaths(sync[s].files) :
    /\ sync[s].db_map[p] # NoDoc /\ sync[s].db_map[p].status = "indexed"
    /\ p \notin ScannedPaths(sync[s].files)
    /\ sync[s].db_map[q] = NoDoc
    /\ sync[s].db_map[p].hash = compute_file_hash(disk[q])

\* C16: ordering of a sync run and rename.  A run_sync sweeps deleted
\* paths only when every scanned path has been processed, and a run over
\* a watch directory in which an indexed file has been moved with
\* unchanged content returns new = 1 and deleted = 1 for the two paths.
C16_OrderAndRename ==
  [][\A s \in Syncs :
       /\ (sync[s].pc # "idle" /\ sync'[s].stats.deleted # sync[s].stats.deleted)
          => sync[s].i > Len(sync[s].files)
       /\ (SyncReturns(s) /\ Moved(s) /\ sync[s].quiet)
          => sync'[s].stats = [ZeroStats EXCEPT !.new = 1, !.deleted = 1]]_vars

C16_Witness ==
  \E s \in Syncs :
    /\ sync[s].ended = "returned" /\ sync[s].quiet /\ sync[s].absent # {}
    /\ sync[s].stats = [ZeroStats EXCEPT !.new = 1, !.deleted = 1]
    /\ Cardinality({p \in Paths : disk[p] # NoFile}) = 1

\* The call scan_and_ingest made for its current file raises in this step
\* (the file is gone since the scan, or the pipeline raises).
BatchFileGone == batch.pc = "loop" /\ batch'.pc = "loop" /\ batch'.i # batch.i
BatchRaises == batch.pc = "ingest" /\ ing'["batch"].pc = "raised"
BatchReturnsId == batch.pc = "ingest" /\ ing'["batch"].pc = "returned"
BatchReturns == batch.pc = "loop" /\ batch'.pc = "idle"

Counted(r) == r.success + r.failed + r.skipped

LastDetail == batch'.details[Len(batch'.details)]

\* C18: partial-failure isolation in the batch runner.  scan_and_ingest
\* calls the pipeline on each scanned file in turn; a file whose call
\* raises is counted under failed and gets an entry in details with its
\* error message cut to 200 characters, and the run goes on with the next
\* file; when the run returns every scanned file has been counted and has
\* its entry in details, and three files of which the second alone failed
\* and none resolved to an existing document give success = 2, failed = 1,
\* skipped = 0.
C18_PartialFailure ==
  [][/\ (BatchRaises \/ BatchFileGone)
        => /\ batch'.results = [batch.results EXCEPT !.failed = @ + 1]
           /\ batch'.i = batch.i + 1 /\ batch'.pc = "loop"
           /\ Len(batch'.details) = Len(batch.details) + 1
           /\ LastDetail.file = batch.files[batch.i] /\ LastDetail.status = "error"
           /\ LastDetail.error <= DetailMax
           /\ BatchRaises => LastDetail.error = Detail(MsgLen(ing'["batch"].exc))
     /\ BatchReturnsId
        => /\ Counted(batch'.results) = Counted(batch.results) + 1
           /\ batch'.results.failed = batch.results.failed
           /\ batch'.i = batch.i + 1 /\ batch'.pc = "loop"
           /\ Len(batch'.details) = Len(batch.details) + 1
           /\ LastDetail.file = batch.files[batch.i] /\ LastDetail.status # "error"
     /\ BatchReturns
        => /\ batch'.results.total = Len(batch.files)
           /\ Counted(batch'.results) = Len(batch.files)
           /\ Len(batch'.details) = Len(batch.files)
           /\ \A k \in 1..Len(batch.files) : batch'.details[k].file = batch.files[k]
           /\ (/\ Len(batch.files) = 3 /\ batch.deduped = {}
               /\ {k \in 1..3 : batch.details[k].status = "error"} = {2})
              => batch'.results = [total |-> 3, success |-> 2, failed |-> 1, skipped |-> 0]]_vars

C18_Witness ==
  /\ batch.ended = "returned" /\ Len(batch.files) = 3 /\ batch.deduped = {}
  /\ {k \in 1..3 : batch.details[k].status = "error"} = {2}
  /\ batch.details[2].error = DetailMax
  /\ batch.results = [total |-> 3, success |-> 2, failed |-> 1, skipped |-> 0]

\* C19: dedup is reported as skipped by the batch runner.  A file of a
\* scan_and_ingest run whose call the dedup check resolves to an existing
\* document is counted under skipped and not under success or failed.
C19_DedupSkipped ==
  [][(BatchReturnsId /\ ing["batch"].pc = "check")
     => batch'.results = [batch.results EXCEPT !.skipped = @ + 1]]_vars

\* The call of runner r is past the INSERT of its document and the parsed
\* text of its file gives no chunk.
EmptyContent(r) == ing[r].doc # NoDoc /\ chunk_text(ing[r].content) = {}

\* C20: empty content is a valid terminal state.  When the chunker returns
\* no chunk, ingest_document does not call the embedder and leaves its
\* try block by return, with the document marked indexed and its page
\* count set to the parser's total; the only exceptions of that step are
\* those of the parser.  When the session then commits, the call returns
\* the document id and the catalog holds the document with status
\* indexed, that page count and no chunk row.
C20_EmptyContent ==
  [][\A r \in Runners :
       /\ (ing[r].pc = "work" /\ EmptyContent(r) /\ ing'[r].pc \notin {"work", "crashed"})
          => \/ /\ ing'[r].pc = "commit" /\ ing'[r].pend = {}
                /\ ing'[r].doc.status = "indexed"
                /\ ing'[r].doc.total_page_cnt = total_pages(ing[r].content)
             \/ ing'[r].pc = "raised" /\ ing'[r].exc \in {"ParseError", "Timeout"}
       /\ (ing[r].pc = "commit" /\ EmptyContent(r) /\ ing'[r].pc = "returned")
          => /\ ing'[r].result = ing[r].doc.doc_id
             /\ \E d \in docs' :
                  /\ d.doc_id = ing'[r].result /\ d.status = "indexed"
                  /\ d.total_page_cnt = total_pages(ing[r].content)
             /\ \A k \in chunks' : k.doc_id # ing'[r].result]_vars

C20_Witness ==
  \E r \in Runners, d \in docs :
    /\ ing[r].pc = "returned" /\ ing[r].result = d.doc_id /\ ing[r].doc.doc_id = d.doc_id
    /\ d.hash = compute_file_hash(1) /\ d.status = "indexed"
    /\ d.total_page_cnt = total_pages(1)
    /\ \A k \in chunks : k.doc_id # d.doc_id

\* The chunk_idx values of the committed chunk rows of document d.
ChunkIdxOf(d) == {k.chunk_idx : k \in {x \in chunks : x.doc_id = d.doc_id}}

\* The bytes a digest was computed from.
ContentOf(h) == CHOOSE c \in Contents : compute_file_hash(c) = h

\* C21: atomic persist.  In every committed state of the catalog a
\* document has no chunk row, or it is indexed and has the whole chunk
\* set of its pipeline run.
C21_AtomicPersist ==
  \A d \in docs :
    \/ ChunkIdxOf(d) = {}
    \/ d.status = "indexed" /\ ChunkIdxOf(d) = chunk_text(ContentOf(d.hash))

\* A committed document with two chunk rows is visible while another
\* call holds its own chunk batch uncommitted.
C21_Witness ==
  \E d \in docs, r \in Runners :
    /\ ChunkIdxOf(d) = {0, 1} /\ d.status = "indexed"
    /\ ing[r].pc = "commit" /\ Cardinality(ing[r].pend) = 1

\* An earlier call of ingest_document, made by runner f, failed in its
\* pipeline on the bytes the call of runner r is made on.
FailedBefore(f, r) ==
  /\ f # r /\ ing[f].pc = "raised" /\ ing[f].doc.status = "failed"
  /\ ing[f].doc.hash = file_hash(r)

\* C22: a failed attempt does not block a direct retry.  A call made on
\* the bytes an earlier call failed on is not ended at its dedup check by
\* the row of that attempt: it goes on to a row of its own unless a
\* committed document with that digest exists, runs the pipeline, and
\* when the pipeline succeeds and the session commits, the catalog holds
\* an indexed document with that digest.
C22_RetryAfterFailure ==
  [][\A r \in Runners, f \in Runners :
       /\ (Checks(r) /\ FailedBefore(f, r))
          => /\ ing'[r].pc = "returned"
                => /\ ing'[r].result # ing[f].doc.doc_id
                   /\ \E d \in docs : d.doc_id = ing'[r].result /\ d.hash = file_hash(r)
             /\ (\A d \in docs : d.hash # file_hash(r)) => ing'[r].pc = "insert"
       /\ (ing[r].pc = "commit" /\ FailedBefore(f, r) /\ ing'[r].pc = "returned")
          => \E d \in docs' :
               /\ d.hash = file_hash(r) /\ d.status = "indexed"
               /\ d.doc_id = ing'[r].result /\ d.doc_id # ing[f].doc.doc_id]_vars

\* A retry has indexed the bytes an earlier attempt failed on.
C22_Witness ==
  \E r \in Runners, f \in Runners, d \in docs :
    /\ f # r /\ ing[f].pc = "raised" /\ ing[f].doc.status = "failed"
    /\ ing[r].pc = "returned" /\ ing[r].result = d.doc_id /\ ing[r].doc.doc_id = d.doc_id
    /\ d.hash = ing[f].doc.hash /\ d.status = "indexed" /\ d.doc_id > ing[f].doc.doc_id

\* A run of the task starts in this step.
TaskStarts == task'.runs = task.runs + 1

\* C23 as amended: bounded retry of the ingest task.  One submission of
\* ingest_file is retried at most max_retries times: a retry is scheduled
\* only by a run that raised, a run that returned a document id is the
\* last one, a run whose worker was lost is run again without a retry
\* being counted, and the number of runs is at most 1 + max_retries plus
\* the number of lost runs; after a raise with the retries used up, and
\* after a return, the task is in a final state.
C23_BoundedRetry ==
  [][/\ task'.retries <= max_retries
     /\ task'.runs <= 1 + task'.retries + task'.lost
     /\ task'.retries # task.retries
        => /\ task'.retries = task.retries + 1 /\ task'.last = "raised"
           /\ task.pc = "running" => ing'["task"].pc = "raised"
     /\ TaskStarts => task.last \in {"", "raised", "lost"}
     /\ (task.pc = "running" /\ ing'["task"].pc = "returned") => task'.pc = "ok"
     /\ (task'.last = "raised" /\ task.last # "raised" /\ task.retries = max_retries)
        => task'.pc = "failed"
     /\ task.pc \in {"ok", "failed"} => task' = task]_vars

C23_Witness ==
  /\ task.pc = "failed" /\ task.retries = max_retries /\ task.runs = 1 + max_retries
  /\ task.lost = 0

\* C23 as stated: one submission runs ingest_document at most 1 + 3 times.
C23_AsStated ==
  task.runs <= 1 + max_retries

\* run_sync s is called in this step.
SyncCalled(s) == sync[s].pc = "idle" /\ syncRuns' = syncRuns + 1 /\ sync'[s] # sync[s]

\* C24: a missing watch root aborts sync as a whole.  A run_sync called
\* when the watch directory does not exist or is not a directory returns
\* at once with the error and no counter, and leaves every document,
\* chunk and job row as it was.
C24_MissingRoot ==
  [][\A s \in Syncs :
       (SyncCalled(s) /\ root # "dir")
       => /\ sync'[s].pc = "idle" /\ sync'[s].ended = "error"
          /\ sync'[s].stats = ZeroStats /\ summary' = summary
          /\ docs' = docs /\ chunks' = chunks /\ jobs' = jobs]_vars

\* A run has ended with the error while the catalog holds documents and
\* no file is left.
C24_Witness ==
  \E s \in Syncs :
    /\ sync[s].pc = "idle" /\ sync[s].ended = "error" /\ root # "dir"
    /\ docs # {} /\ chunks # {}

C27_PathUnique ==
  \A d \in docs, e \in docs : d.path = e.path => d.doc_id = e.doc_id

\* C28: chunk index invariant.  The chunk_idx values of the chunk rows of
\* a document are 0, 1, ..., n-1 for its n rows, the first n of the
\* indices the chunker gave, also when the embedder returns fewer or more
\* vectors than there are chunks.
C28_ChunkIndex ==
  \A d \in docs :
    /\ ChunkIdxOf(d) = 0..(Cardinality(ChunkIdxOf(d)) - 1)
    /\ ChunkIdxOf(d) \subseteq chunk_text(ContentOf(d.hash))

\* A document whose text gave two chunks has one chunk row: the embedder
\* returned one vector.
C28_Witness ==
  \E d \in docs :
    /\ chunk_text(ContentOf(d.hash)) = {0, 1} /\ ChunkIdxOf(d) = {0}

\* A scan_files call has just returned or raised.
Scanned == scan.result.status # "none"

\* C25: scan_files fails with a not-found error, and returns no
\* ScanResult, whenever the root does not exist or is not a directory,
\* whatever the options.
C25_NotFound ==
  (Scanned /\ root # "dir") => scan.result.status = "raised"

\* C26: the files scan_files returns are in ascending order of file name,
\* and a second scan of the unchanged directory with the same options
\* returns the same sequence.
C26_ScanOrder ==
  [][scan'.count = scan.count + 1
     => /\ scan'.result.status = "ok"
           => LET files == scan'.result.files
              IN \A i \in 1..Len(files), j \in 1..Len(files) :
                   i < j => NameKey(files[i].path) <= NameKey(files[j].path)
        /\ (scan.result.status = "ok" /\ scan'.options = scan.options)
           => scan'.result.files = scan.result.files]_vars

\* b.pdf, a.pdf, c.pdf, scanned twice, came back as a.pdf, b.pdf, c.pdf.
C26_Witness ==
  /\ scan.count = 2
  /\ scan.result.status = "ok"
  /\ scan.listing = <<Entry("b", ".pdf", "top"), Entry("a", ".pdf", "top"),
                      Entry("c", ".pdf", "top")>>
  /\ [k \in 1..Len(scan.result.files) |-> scan.result.files[k].name]
       = <<(<<"a", ".pdf">>), (<<"b", ".pdf">>), (<<"c", ".pdf">>)>>

\* C29: scan_files returns exactly the candidates whose lower-cased
\* extension is in the allowed set (the filter if given, else the
\* supported set); total_files is the length of files, by_type counts
\* the returned files per bare extension and sums to total_files.
C29_Filtering ==
  scan.result.status = "ok"
  => LET r == scan.result
         cand == candidates(scan.listing, scan.options)
         allowed == IF scan.options.extensions.given
                      THEN scan.options.extensions.exts
                      ELSE SUPPORTED_EXTENSIONS
         count(b) == IF b \in DOMAIN r.by_type THEN r.by_type[b] ELSE 0
     IN /\ {r.files[k].path : k \in 1..Len(r.files)}
             = {cand[k] : k \in {n \in 1..Len(cand) :
                                   Lower(cand[n].ext) \in allowed}}
        /\ r.total_files = Len(r.files)
        /\ \A b \in {"pdf", "txt", "PDF"} :
             Cardinality({k \in 1..Len(r.files) : Bare(r.files[k].extension) = b})
               = (IF b \in DOMAIN r.by_type THEN r.by_type[b] ELSE 0)
        /\ count("pdf") + count("txt") + count("PDF") = r.total_files
        /\ DOMAIN r.by_type \subseteq {"pdf", "txt", "PDF"}

\* run_sync, past the check of the watch directory, ends: it returns its
\* stats or the commit of its session raises.
SyncEnds(s) == sync[s].pc = "loop" /\ sync'[s].pc = "idle"

\* C31: every run_sync that gets past the root check leaves exactly one
\* job row, completed iff the run counted no error and
\* completed_with_errors otherwise, with the stats as last error only when
\* errors > 0; no row is left in status running.
C31_JobRecord ==
  [][/\ \A s \in Syncs :
          SyncEnds(s)
          => /\ Len(jobs') = Len(jobs) + 1
             /\ SubSeq(jobs', 1, Len(jobs)) = jobs
             /\ LET job == jobs'[Len(jobs')]
                    stats == sync'[s].stats
                IN /\ job.status = "completed" <=> stats.errors = 0
                   /\ job.status = "completed_with_errors" <=> stats.errors > 0
                   /\ job.last_error = (IF stats.errors > 0 THEN {stats} ELSE {})
     /\ (\A s \in Syncs : ~SyncEnds(s)) => jobs' = jobs
     /\ \A k \in 1..Len(jobs') : jobs'[k].status # "running"]_vars

\* The ids of the committed documents.
DocIds(ds) == {d.doc_id : d \in ds}

\* C32: every catalog mutation of one document commits in its own
\* transaction: the deletions of a run_sync are not committed together as
\* one unit, and a failure that rolls back one document's deletion does
\* not undo the deletion of another, made before it without error.
C32_PerDocumentTx ==
  [][/\ Cardinality(DocIds(docs) \ DocIds(docs')) <= 1
     /\ \A s \in Syncs :
          SyncEnds(s)
          => /\ sync[s].deleted \cap DocIds(docs') = {}
             /\ (sync'[s].ended = "raised"
                 /\ sync'[s].stats.deleted > sync[s].stats.deleted)
                => docs' # docs]_vars

\* The place of a path in the name-sorted order of the scanner.
NameRank(p) == CHOOSE k \in 1..Len(PathOrder) : PathOrder[k] = p

\* C33: within one run_sync the paths are processed in the scanner's
\* name-sorted order, in the pass over the disk paths and in the sweep of
\* the deleted catalog paths.
C33_TieBreak ==
  [][\A s \in Syncs :
       /\ sync'[s].pc # "idle"
          => /\ \A i \in 1..Len(sync'[s].files), j \in 1..Len(sync'[s].files) :
                  i < j => NameRank(sync'[s].files[i].path) < NameRank(sync'[s].files[j].path)
             /\ sync[s].pc # "idle" => sync'[s].i \in {sync[s].i, sync[s].i + 1}
             /\ sync'[s].pc \in {"call", "ingest"}
                => sync'[s].path = sync'[s].files[sync'[s].i].path
       /\ SyncEnds(s)
          => \A i \in 1..Len(sync'[s].swept), j \in 1..Len(sync'[s].swept) :
               i < j => NameRank(sync'[s].swept[i]) < NameRank(sync'[s].swept[j])]_vars

\* C34: in every catalog state each chunk row belongs to exactly one live
\* document, and a step that deletes a document (the sweep, the modified
\* branch, the delete endpoint) deletes all chunk rows of its id with it.
C34_ChunkOwnership ==
  [][/\ \A c \in chunks' : Cardinality({d \in docs' : d.doc_id = c.doc_id}) = 1
     /\ \A id \in DocIds(docs) \ DocIds(docs') : \A c \in chunks' : c.doc_id # id]_vars

\* A modified file was indexed again: the document it had, with its chunk
\* row, is gone and the new document has its own chunk rows.
C34_Witness ==
  /\ sync["sync"].ended = "returned" /\ sync["sync"].stats.modified = 1
  /\ 1 \notin DocIds(docs)
  /\ \E d \in docs : d.doc_id = 2 /\ ChunkIdxOf(d) # {}
  /\ \A c \in chunks : c.doc_id = 2

\* C35: when run_sync has returned with errors = 0, and nothing else has
\* touched the watch directory or the catalog since the run started, every
\* file on disk has a live catalog document with the fingerprint of the
\* file.
C35_CatalogCoversDisk ==
  \A s \in Syncs :
    (sync[s].pc = "idle" /\ sync[s].ended = "returned" /\ sync[s].stats.errors = 0
       /\ sync[s].quiet /\ ~sync[s].overlap /\ Running(s) = {})
    => \A p \in Paths :
         disk[p] # NoFile => \E d \in docs : d.hash = compute_file_hash(disk[p])

\* The sum of the five counters of a stats dict.
Total(stats) ==
  stats.new + stats.modified + stats.deleted + stats.unchanged + stats.errors

\* C36: in a run_sync that returns stats, each path on disk adds one to
\* exactly one of new, modified, unchanged, errors and each catalog path
\* absent from disk adds one to exactly one of deleted, errors: the five
\* counters sum to the number of disk paths plus the number of catalog
\* paths absent from disk.
C36_SyncConservation ==
  [][\A s \in Syncs :
       /\ (sync[s].pc # "idle" /\ sync'[s].pc # "idle")
          => /\ Total(sync'[s].stats) - Total(sync[s].stats) = sync'[s].i - sync[s].i
             /\ sync'[s].stats.deleted = 0
             /\ \A k \in {"new", "modified", "unchanged", "errors"} :
                  sync'[s].stats[k] >= sync[s].stats[k]
             /\ Total(sync'[s].stats) = sync'[s].i - 1
       /\ SyncReturns(s)
          => /\ Total(sync'[s].stats) = Len(sync[s].files) + Len(sync'[s].swept)
             /\ Len(sync'[s].swept) = Cardinality(Gone(s))
             /\ (sync'[s].stats.deleted - sync[s].stats.deleted)
                  + (sync'[s].stats.errors - sync[s].stats.errors) = Len(sync'[s].swept)
             /\ \A k \in {"new", "modified", "unchanged"} :
                  sync'[s].stats[k] = sync[s].stats[k]]_vars

\* A run has returned with one path counted under errors and one catalog
\* path swept.
C36_Witness ==
  /\ sync["sync"].pc = "idle" /\ sync["sync"].ended = "returned"
  /\ sync["sync"].stats = [ZeroStats EXCEPT !.errors = 1, !.deleted = 1]

\* C37: in run_sync the document of a modified path is deleted before the
\* pipeline runs on the new content; when that pipeline run raises, the
\* path is counted under errors and not under modified, and when the run
\* returns the old document and its chunks are gone and the catalog holds
\* no document for the path.
C37_FailedReingest ==
  [][\A s \in Syncs :
       /\ (sync'[s].pc = "call" /\ sync[s].pc = "loop" /\ sync'[s].kind = "modified")
          => NextOld(s).doc_id \in sync'[s].deleted
       /\ (CallRaises(s) /\ sync[s].kind = "modified")
          => /\ sync'[s].stats = Bump(sync[s].stats, "errors")
             /\ sync[s].db_map[sync[s].path].doc_id \in sync[s].deleted
       /\ (SyncReturns(s) /\ sync[s].quiet)
          => \A f \in sync[s].failed :
               sync[s].db_map[f.path] # NoDoc
               => /\ \A d \in docs' : d.doc_id # sync[s].db_map[f.path].doc_id
                  /\ \A c \in chunks' : c.doc_id # sync[s].db_map[f.path].doc_id
                  /\ \A d \in docs' : d.path # f.path]_vars

\* C38: a failure of the vector store does not block the deletion in the
\* catalog.  When delete_by_doc_id raises and no statement of the catalog
\* store fails, _delete_document_data deletes the rows of the document and
\* the run counts no error for it: the path goes on to the re-ingest, or
\* is counted under deleted; the delete endpoint deletes the document and
\* its chunk rows.
C38_VectorFailure ==
  [][/\ \A s \in Syncs :
          /\ (sync[s].pc = "loop" /\ sync'[s].pc # "idle" /\ ~sync'[s].broken)
             => \A id \in sync'[s].warned \ sync[s].warned :
                  /\ id \in sync'[s].deleted
                  /\ sync'[s].pc = "call" /\ sync'[s].kind = "modified"
                  /\ sync'[s].stats = sync[s].stats
          /\ (SyncReturns(s) /\ sync'[s].warned # sync[s].warned)
             => /\ sync'[s].stats = [sync[s].stats EXCEPT !.deleted = @ + Cardinality(Gone(s))]
                /\ \A id \in sync'[s].warned :
                     /\ id \notin DocIds(docs')
                     /\ \A c \in chunks' : c.doc_id # id
     /\ \A id \in qdrant'.warned \ qdrant.warned :
          /\ id \in DocIds(docs) \ DocIds(docs')
          /\ \A c \in chunks' : c.doc_id # id]_vars

\* The vector store failed for a document the delete endpoint deleted and
\* for a modified document that a run_sync replaced and counted under
\* modified.
C38_Witness ==
  /\ qdrant.warned # {}
  /\ sync["sync"].ended = "returned" /\ sync["sync"].warned # {}
  /\ sync["sync"].stats.modified = 1 /\ sync["sync"].stats.errors = 0

\* The entries of details with the given status.
WithStatus(st) == {k \in 1..Len(batch.details) : batch.details[k].status = st}

\* C39: counter conservation in the batch runner.  While scan_and_ingest
\* runs, every file it is done with has one entry in details, in scan
\* order, and is counted once, under the counter of its entry; when the
\* run has returned, success + failed + skipped = total, total is the
\* number of scanned files and details has one entry per scanned file.
C39_BatchConservation ==
  (batch.pc # "idle" \/ batch.ended = "returned")
  => /\ batch.results.total = Len(batch.files)
     /\ Len(batch.details) = batch.i - 1
     /\ \A k \in 1..Len(batch.details) : batch.details[k].file = batch.files[k]
     /\ batch.results.success = Cardinality(WithStatus("ok"))
     /\ batch.results.failed = Cardinality(WithStatus("error"))
     /\ batch.results.skipped = Cardinality(WithStatus("skipped"))
     /\ WithStatus("ok") \cup WithStatus("error") \cup WithStatus("skipped")
          = 1..Len(batch.details)
     /\ batch.ended = "returned"
        => /\ Counted(batch.results) = batch.results.total
           /\ Len(batch.details) = Len(batch.files)

\* A run over three files has returned; every file was a success, one of
\* them by the dedup check.
C39_Witness ==
  /\ batch.pc = "idle" /\ batch.ended = "returned"
  /\ batch.results = [total |-> 3, success |-> 3, failed |-> 0, skipped |-> 0]
  /\ batch.deduped # {}
  /\ Len(batch.details) = 3

====
